---- MODULE Spec2Model ----
(***************************************************************************)
(* Risk analytics core (analytics/risk_analytics.py): Value at Risk by     *)
(* three methods, Expected Shortfall, and the data they read through the   *)
(* risk_management data source.                                            *)
(*                                                                         *)
(* Floating-point values are modelled as fixed-point integers with Scale   *)
(* units per 1.0, together with the IEEE special values NaN, +inf and -inf *)
(* that numpy produces instead of raising on a division by zero.           *)
(***************************************************************************)
EXTENDS Integers, Sequences, FiniteSets, TLC

\* ------------------------------------------------------------------------
\* Bounds of the model
\* ------------------------------------------------------------------------
MaxPositions == 2

Scale == 10 * 1000

\* ------------------------------------------------------------------------
\* Floating-point numbers
\* ------------------------------------------------------------------------
Fin(n) == [k |-> "fin", v |-> n]
NaN == [k |-> "nan", v |-> 0]
PInf == [k |-> "inf", v |-> 1]
NInf == [k |-> "inf", v |-> -1]

IsFin(a) == a.k = "fin"
IsNaN(a) == a.k = "nan"
IsInf(a) == a.k = "inf"

Abs(n) == IF n < 0 THEN -n ELSE n
Sgn(n) == IF n < 0 THEN -1 ELSE IF n > 0 THEN 1 ELSE 0
NumSgn(a) == IF IsFin(a) THEN Sgn(a.v) ELSE a.v
SignedInf(s) == IF s < 0 THEN NInf ELSE PInf

\* |a| * |b| / Scale rounded to nearest, split so that no product overflows
MulMag(a, b) ==
    LET hi == IF a >= b THEN a ELSE b
        lo == IF a >= b THEN b ELSE a
    IN (hi \div Scale) * lo + (((hi % Scale) * lo) + (Scale \div 2)) \div Scale

\* <<quotient, remainder>> of (acc + n * r) by b for acc < b and r < b,
\* by repeated addition
RECURSIVE DigitOf(_, _, _, _, _)
DigitOf(acc, q, r, b, n) ==
    IF n = 0 THEN <<q, acc>>
    ELSE LET t == acc + r
         IN IF t >= b THEN DigitOf(t - b, q + 1, r, b, n - 1)
            ELSE DigitOf(t, q, r, b, n - 1)

\* r * s / b rounded down for r < b and s a power of ten, digit by digit
RECURSIVE FracDiv(_, _, _)
FracDiv(r, b, s) ==
    IF s <= 1 THEN 0
    ELSE LET d == DigitOf(0, 0, r, b, 10)
         IN (d[1] * (s \div 10)) + FracDiv(d[2], b, s \div 10)

RECURSIVE Gcd(_, _)
Gcd(a, b) == IF b = 0 THEN a ELSE Gcd(b, a % b)

\* |a| * Scale / |b| rounded down, on the fraction in lowest terms
DivMag(a, b) ==
    LET g == Gcd(a, b)
        n == a \div g
        d == b \div g
    IN (n \div d) * Scale + FracDiv(n % d, d, Scale)

NumMul(a, b) ==
    IF IsNaN(a) \/ IsNaN(b) THEN NaN
    ELSE IF IsInf(a) \/ IsInf(b)
         THEN IF NumSgn(a) = 0 \/ NumSgn(b) = 0 THEN NaN
              ELSE SignedInf(NumSgn(a) * NumSgn(b))
    ELSE Fin(Sgn(a.v) * Sgn(b.v) * MulMag(Abs(a.v), Abs(b.v)))

NumDiv(a, b) ==
    IF IsNaN(a) \/ IsNaN(b) THEN NaN
    ELSE IF IsInf(a)
         THEN IF IsInf(b) THEN NaN
              ELSE SignedInf(a.v * (IF b.v < 0 THEN -1 ELSE 1))
    ELSE IF IsInf(b) THEN Fin(0)
    ELSE IF b.v = 0
         THEN IF a.v = 0 THEN NaN ELSE SignedInf(a.v)
    ELSE Fin(Sgn(a.v) * Sgn(b.v) * DivMag(Abs(a.v), Abs(b.v)))

NumAdd(a, b) ==
    IF IsNaN(a) \/ IsNaN(b) THEN NaN
    ELSE IF IsInf(a)
         THEN IF IsInf(b) /\ a.v # b.v THEN NaN ELSE a
    ELSE IF IsInf(b) THEN b
    ELSE Fin(a.v + b.v)

NumSub(a, b) ==
    NumAdd(a, IF IsInf(b) THEN SignedInf(-b.v) ELSE IF IsNaN(b) THEN NaN ELSE Fin(-b.v))

RECURSIVE ISqrtBetween(_, _, _)
ISqrtBetween(n, lo, hi) ==
    IF lo >= hi THEN lo
    ELSE LET mid == (lo + hi + 1) \div 2
         IN IF mid * mid <= n THEN ISqrtBetween(n, mid, hi)
            ELSE ISqrtBetween(n, lo, mid - 1)

\* floor of the square root of n
ISqrt(n) == ISqrtBetween(n, 0, 46340)

\* np.sqrt: NaN for a negative argument
NumSqrt(a) ==
    IF IsNaN(a) THEN NaN
    ELSE IF IsInf(a) THEN (IF a.v > 0 THEN PInf ELSE NaN)
    ELSE IF a.v < 0 THEN NaN
    ELSE Fin(ISqrt(a.v * Scale))

\* Series.fillna / the value the code substitutes for a missing one
NumFillna(a, d) == IF IsNaN(a) THEN d ELSE a

\* ------------------------------------------------------------------------
\* Python values
\* ------------------------------------------------------------------------
\* None, as passed for an omitted confidence_level / time_horizon
NoneArg == [k |-> "none", v |-> 0]

\* truthiness of a number or None, as used by `x or default`
Truthy(x) == x.k # "none" /\ ~(IsFin(x) /\ x.v = 0)
PyOr(x, d) == IF Truthy(x) THEN x ELSE d

EmptyDict == << >>
IsEmptyDict(d) == DOMAIN d = {}

Return(value) == [kind |-> "return", error |-> "", value |-> value]
Raise(e) == [kind |-> "raise", error |-> e, value |-> EmptyDict]
NoOutcome == [kind |-> "none", error |-> "", value |-> EmptyDict]

\* ------------------------------------------------------------------------
\* Configuration (config.py)
\* ------------------------------------------------------------------------
COMPLIANCE_LIMITS ==
    [var_confidence_level |-> Fin(99 * (Scale \div 100)),
     var_time_horizon |-> Fin(1 * Scale)]

\* ------------------------------------------------------------------------
\* Distribution utilities (scipy.stats.norm), by table over the confidence
\* levels the model uses; values in Scale units
\* ------------------------------------------------------------------------
Percent(c) == Fin(c * (Scale \div 100))

ConfidenceLevels == {Percent(5), Percent(30), Percent(50), Percent(60),
                     Percent(70), Percent(90), Percent(95), Percent(99)}

\* stats.norm.ppf(p)
NormPpf(p) ==
    IF ~IsFin(p) THEN NaN
    ELSE CASE p.v = 500  -> Fin(-16449)
           [] p.v = 3000 -> Fin(-5244)
           [] p.v = 5000 -> Fin(0)
           [] p.v = 6000 -> Fin(2533)
           [] p.v = 7000 -> Fin(5244)
           [] p.v = 9000 -> Fin(12816)
           [] p.v = 9500 -> Fin(16449)
           [] p.v = 9900 -> Fin(23263)
           [] OTHER -> NaN

\* stats.norm.pdf(z), an even function of z
NormPdf(z) ==
    IF ~IsFin(z) THEN NaN
    ELSE CASE Abs(z.v) = 0     -> Fin(3989)
           [] Abs(z.v) = 2533  -> Fin(3863)
           [] Abs(z.v) = 5244  -> Fin(3477)
           [] Abs(z.v) = 12816 -> Fin(1755)
           [] Abs(z.v) = 16449 -> Fin(1031)
           [] Abs(z.v) = 23263 -> Fin(267)
           [] OTHER -> NaN

\* ------------------------------------------------------------------------
\* The risk_management data source: positions joined with market data
\* ------------------------------------------------------------------------
Row(sym, mv, qty, vol, beta) ==
    [symbol |-> sym, market_value |-> mv, quantity |-> qty,
     volatility_30d |-> vol, beta_to_sp500 |-> beta]

\* the rows a portfolio may hold; a SQL NULL reads as NaN in a DataFrame
Universe ==
    { Row("AAA", Fin(2 * Scale), 10, Fin(2000), Fin(12000)),
      Row("BBB", Fin(1 * Scale), 5, Fin(4000), NaN),
      Row("SHT", Fin(-1 * Scale), -5, Fin(2000), Fin(8000)),
      Row("ZRO", Fin(0), 3, Fin(3000), Fin(10000)),
      Row("NMD", Fin(1 * Scale), 4, NaN, NaN),
      Row("CLS", Fin(3 * Scale), 0, Fin(2000), Fin(10000)),
      Row("BIG", Fin(100000 * Scale), 1000, Fin(2000), Fin(16000)) }

Portfolios == {P \in SUBSET Universe : Cardinality(P) <= MaxPositions}

\* WHERE p.quantity != 0 AND m.volatility_30d IS NOT NULL
VarQueryFilter(r) == r.quantity # 0 /\ ~IsNaN(r.volatility_30d)

\* ORDER BY p.market_value DESC: every order of the rows that is
\* non-increasing in market_value
RECURSIVE OrderedByValueDesc(_)
OrderedByValueDesc(S) ==
    IF S = {} THEN {<< >>}
    ELSE UNION { { <<r>> \o t : t \in OrderedByValueDesc(S \ {r}) } :
                 r \in {x \in S : \A y \in S : y.market_value.v <= x.market_value.v} }

\* RiskQueries.get_var_calculation run by db_manager.execute_query
GetVarCalculation(table) == OrderedByValueDesc({r \in table : VarQueryFilter(r)})

\* ------------------------------------------------------------------------
\* Array helpers (numpy / pandas)
\* ------------------------------------------------------------------------
RECURSIVE NumSum(_)
NumSum(a) == IF Len(a) = 0 THEN Fin(0) ELSE NumAdd(a[1], NumSum(Tail(a)))

MarketValues(data) == [i \in 1..Len(data) |-> data[i].market_value]

\* np.dot of two 1-D arrays
Dot(a, b) == NumSum([i \in 1..Len(a) |-> NumMul(a[i], b[i])])
\* np.dot of a 1-D array with a 0-D value: elementwise multiplication
DotScalar(a, x) == [i \in 1..Len(a) |-> NumMul(a[i], x)]

Ok(v) == [ok |-> TRUE, v |-> v, error |-> ""]
Err(e) == [ok |-> FALSE, v |-> << >>, error |-> e]

\* a != 0 on numbers; NaN compares unequal to everything
NumNonZero(a) == ~(IsFin(a) /\ a.v = 0)

\* truth value of a boolean array in an `if`: ValueError when the array has
\* more than one element
ArrayTruth(b) ==
    IF Len(b) = 1 THEN Ok(b[1])
    ELSE IF Len(b) = 0 THEN Ok(FALSE)
    ELSE Err("ValueError: truth value of an array is ambiguous")

\* sort key of a number that is not NaN
NumKey(a) == IF IsInf(a) THEN a.v * (2 ^ 30) ELSE a.v

RemoveAt(a, m) == [i \in 1..(Len(a) - 1) |-> IF i < m THEN a[i] ELSE a[i + 1]]

RECURSIVE SortAsc(_)
SortAsc(a) ==
    IF Len(a) = 0 THEN << >>
    ELSE LET m == CHOOSE i \in 1..Len(a) :
                    \A j \in 1..Len(a) :
                        NumKey(a[i]) < NumKey(a[j]) \/ (NumKey(a[i]) = NumKey(a[j]) /\ i <= j)
         IN <<a[m]>> \o SortAsc(RemoveAt(a, m))

\* np.percentile(a, q) with q in percent: linear interpolation between the
\* order statistics around position q / 100 * (n - 1)
Percentile(a, q) ==
    IF Len(a) = 0 \/ \E i \in 1..Len(a) : IsNaN(a[i]) THEN NaN
    ELSE IF ~IsFin(q) THEN NaN
    ELSE LET s == SortAsc(a)
             quantile == NumDiv(q, Fin(100 * Scale))
             pos == quantile.v * (Len(a) - 1)
             lo == pos \div Scale
             frac == Fin(pos % Scale)
         IN IF lo + 2 > Len(a) THEN s[Len(a)]
            ELSE NumAdd(s[lo + 1], NumMul(NumSub(s[lo + 2], s[lo + 1]), frac))

\* ------------------------------------------------------------------------
\* The module-level random generator of numpy (np.random): a stream of
\* standard normal draws and the position reached in it
\* ------------------------------------------------------------------------
NormalStream == <<Fin(-10000), Fin(5000), Fin(15000)>>

\* the k-th standard normal draw (k = 1, 2, ...) from generator state g
StdNormal(g, k) == NormalStream[((g + k - 1) % Len(NormalStream)) + 1]
\* np.random.normal(0, sd): the k-th draw scaled by sd
RandomNormal(g, k, sd) == NumMul(sd, StdNormal(g, k))
Advance(g, n) == (g + n) % Len(NormalStream)

\* ------------------------------------------------------------------------
\* RiskAnalytics
\* ------------------------------------------------------------------------
Methods == {"parametric", "historical", "monte_carlo", "bootstrap"}

\* the default the code substitutes for a missing volatility
DefaultVolatility == Fin(2 * (Scale \div 10))

\* number of simulated trials the model runs (n_simulations; the program
\* runs 1000 historical and 10000 Monte Carlo trials)
HistoricalTrials == 3
MonteCarloTrials == 2

\* position['volatility_30d'].fillna(0.2) inside `for _, position in
\* portfolio_data.iterrows()`: the row's field is a float, which has no
\* attribute fillna
ScalarFillna(x, d) == Err("AttributeError")

\* lines 89-102 of _calculate_parametric_var
ParametricAggregate(portfolio_data, confidence_level, time_horizon) ==
    LET n == Len(portfolio_data)
        total_value == NumSum(MarketValues(portfolio_data))
        weights == [i \in 1..n |-> NumDiv(portfolio_data[i].market_value, total_value)]
        vol2 == [i \in 1..n |->
                    LET f == NumFillna(portfolio_data[i].volatility_30d, DefaultVolatility)
                    IN NumMul(f, f)]
        inner == DotScalar(weights, Dot(vol2, weights))
        portfolio_vol == [j \in 1..n |-> NumSqrt(inner[j])]
        z_score == NormPpf(confidence_level)
        var_absolute == [j \in 1..n |->
                            NumMul(NumMul(NumMul(total_value, portfolio_vol[j]),
                                          NumSqrt(time_horizon)), z_score)]
        var_percentage == [j \in 1..n |-> NumDiv(var_absolute[j], total_value)]
    IN [total_value |-> total_value, weights |-> weights,
        portfolio_vol |-> portfolio_vol, z_score |-> z_score,
        var_absolute |-> var_absolute, var_percentage |-> var_percentage]

\* lines 104-115: the component VaR of every position, or the first error
RECURSIVE ComponentVarLoop(_, _, _, _, _)
ComponentVarLoop(portfolio_data, i, agg, time_horizon, acc) ==
    IF i > Len(portfolio_data) THEN Ok(acc)
    ELSE LET position == portfolio_data[i]
             vol == ScalarFillna(position.volatility_30d, DefaultVolatility)
         IN IF ~vol.ok THEN vol
            ELSE LET position_var ==
                         NumMul(NumMul(NumMul(position.market_value, vol.v),
                                       NumSqrt(time_horizon)), agg.z_score)
                     nonzero == ArrayTruth([j \in 1..Len(agg.var_absolute) |->
                                               NumNonZero(agg.var_absolute[j])])
                 IN IF ~nonzero.ok THEN nonzero
                    ELSE ComponentVarLoop(portfolio_data, i + 1, agg, time_horizon,
                           Append(acc,
                             [symbol |-> position.symbol,
                              market_value |-> position.market_value,
                              weight |-> NumDiv(position.market_value, agg.total_value),
                              volatility |-> vol.v,
                              component_var |-> position_var,
                              var_contribution |->
                                  IF nonzero.v
                                  THEN [j \in 1..Len(agg.var_absolute) |->
                                           NumDiv(position_var, agg.var_absolute[j])]
                                  ELSE <<Fin(0)>>]))

\* _calculate_parametric_var
CalculateParametricVar(portfolio_data, confidence_level, time_horizon) ==
    LET agg == ParametricAggregate(portfolio_data, confidence_level, time_horizon)
        component_var == ComponentVarLoop(portfolio_data, 1, agg, time_horizon, << >>)
    IN IF ~component_var.ok THEN Raise(component_var.error)
       ELSE Return([var_absolute |-> agg.var_absolute,
                    var_percentage |-> agg.var_percentage,
                    portfolio_volatility |-> agg.portfolio_vol,
                    z_score |-> agg.z_score,
                    component_var |-> component_var.v])

\* lines 137-140 of _calculate_historical_var: per position, n_simulations
\* draws scaled by market value; g is the generator state on entry
RECURSIVE HistoricalDrawLoop(_, _, _, _)
HistoricalDrawLoop(portfolio_data, i, g, acc) ==
    IF i > Len(portfolio_data) THEN Ok(acc)
    ELSE LET position == portfolio_data[i]
             vol == ScalarFillna(position.volatility_30d, DefaultVolatility)
         IN IF ~vol.ok THEN vol
            ELSE HistoricalDrawLoop(portfolio_data, i + 1, g,
                   Append(acc,
                     [t \in 1..HistoricalTrials |->
                        NumMul(RandomNormal(g, (i - 1) * HistoricalTrials + t, vol.v),
                               position.market_value)]))

\* line 143, np.sum(simulated_returns, axis=0): per trial, the sum over the
\* positions; 0.0 when the list is empty
PortfolioReturns(sr) ==
    IF Len(sr) = 0 THEN <<Fin(0)>>
    ELSE [t \in 1..Len(sr[1]) |-> NumSum([i \in 1..Len(sr) |-> sr[i][t]])]

\* the percentile rank (1 - confidence_level) * 100 of lines 146 and 179
TailRank(confidence_level) ==
    NumMul(NumSub(Fin(Scale), confidence_level), Fin(100 * Scale))

\* lines 142-154 of _calculate_historical_var: the record built from the
\* simulated returns of the positions
HistoricalVarOf(sr, portfolio_data, confidence_level) ==
    LET portfolio_returns == PortfolioReturns(sr)
        var_absolute == Percentile(portfolio_returns, TailRank(confidence_level))
        var_percentage == NumDiv(var_absolute, NumSum(MarketValues(portfolio_data)))
    IN [var_absolute |-> <<var_absolute>>,
        var_percentage |-> <<var_percentage>>,
        simulation_count |-> HistoricalTrials]

\* _calculate_historical_var; rng is the generator state left behind
CalculateHistoricalVar(portfolio_data, confidence_level, time_horizon, g) ==
    LET simulated_returns == HistoricalDrawLoop(portfolio_data, 1, g, << >>)
    IN IF ~simulated_returns.ok
       THEN [outcome |-> Raise(simulated_returns.error), rng |-> g]
       ELSE [outcome |-> Return(HistoricalVarOf(simulated_returns.v, portfolio_data,
                                                confidence_level)),
             rng |-> Advance(g, Len(portfolio_data) * HistoricalTrials)]

\* lines 164-173 of _calculate_monte_carlo_var: the value of the portfolio
\* in trial t, or the first error
RECURSIVE ScenarioValue(_, _, _, _, _, _)
ScenarioValue(portfolio_data, t, i, time_horizon, g, scenario_value) ==
    IF i > Len(portfolio_data) THEN Ok(scenario_value)
    ELSE LET position == portfolio_data[i]
             vol == ScalarFillna(position.volatility_30d, DefaultVolatility)
         IN IF ~vol.ok THEN vol
            ELSE LET return_scenario ==
                         RandomNormal(g, (t - 1) * Len(portfolio_data) + i,
                                      NumMul(vol.v, NumSqrt(time_horizon)))
                     position_value ==
                         NumMul(position.market_value, NumAdd(Fin(Scale), return_scenario))
                 IN ScenarioValue(portfolio_data, t, i + 1, time_horizon, g,
                                  NumAdd(scenario_value, position_value))

RECURSIVE MonteCarloLoop(_, _, _, _, _)
MonteCarloLoop(portfolio_data, t, time_horizon, g, acc) ==
    IF t > MonteCarloTrials THEN Ok(acc)
    ELSE LET sv == ScenarioValue(portfolio_data, t, 1, time_horizon, g, Fin(0))
         IN IF ~sv.ok THEN sv
            ELSE MonteCarloLoop(portfolio_data, t + 1, time_horizon, g, Append(acc, sv.v))

\* line 177: the trial values as returns on the initial value
ReturnsOnInitial(pv, initial_value) ==
    [t \in 1..Len(pv) |-> NumDiv(NumSub(pv[t], initial_value), initial_value)]

\* lines 175-187 of _calculate_monte_carlo_var: the record built from the
\* trial values of the portfolio
MonteCarloVarOf(pv, portfolio_data, confidence_level) ==
    LET initial_value == NumSum(MarketValues(portfolio_data))
        portfolio_returns == ReturnsOnInitial(pv, initial_value)
        var_absolute ==
            NumMul(Percentile(portfolio_returns, TailRank(confidence_level)), initial_value)
        var_percentage == NumDiv(var_absolute, initial_value)
    IN [var_absolute |-> <<var_absolute>>,
        var_percentage |-> <<var_percentage>>,
        simulation_count |-> MonteCarloTrials]

\* _calculate_monte_carlo_var
CalculateMonteCarloVar(portfolio_data, confidence_level, time_horizon, g) ==
    LET portfolio_values == MonteCarloLoop(portfolio_data, 1, time_horizon, g, << >>)
    IN IF ~portfolio_values.ok
       THEN [outcome |-> Raise(portfolio_values.error), rng |-> g]
       ELSE [outcome |-> Return(MonteCarloVarOf(portfolio_values.v, portfolio_data,
                                                confidence_level)),
             rng |-> Advance(g, Len(portfolio_data) * MonteCarloTrials)]

Supported == {"parametric", "historical", "monte_carlo"}

\* lines 69-77 of calculate_portfolio_var: var_result.update({...}); the
\* calculation date is left out
WithContext(res, method, confidence_level, time_horizon, portfolio_data) ==
    IF res.kind # "return" THEN res
    ELSE Return([calculation_method |-> method,
                 confidence_level |-> confidence_level,
                 time_horizon |-> time_horizon,
                 total_portfolio_value |-> NumSum(MarketValues(portfolio_data))]
                @@ res.value)

DataEmptyIgnored(portfolio_data) == FALSE

\* portfolio_data.empty (line 55)
DataEmpty(portfolio_data) == Len(portfolio_data) = 0

DispatchFallback(method) == IF method \in Supported THEN method ELSE "parametric"

\* the branch of lines 60-67 a method string selects
Dispatch(method) == IF method \in Supported THEN method ELSE "unsupported"

EsFactorUndivided(confidence_level) == NormPdf(NormPpf(confidence_level))

\* lines 207-209 of calculate_expected_shortfall
EsFactor(confidence_level) ==
    NumDiv(NormPdf(NormPpf(confidence_level)), NumSub(Fin(Scale), confidence_level))

\* lines 199-219 of calculate_expected_shortfall, given the VaR result, the
\* argument, the object and the table as the second query finds it
ExpectedShortfallTail(var_value, confidence_arg, slf, portfolio_data) ==
    LET total_value == NumSum(MarketValues(portfolio_data))
        portfolio_vol == var_value.portfolio_volatility
        confidence_level == PyOr(confidence_arg, slf.var_confidence_level)
        es_factor == EsFactor(confidence_level)
        expected_shortfall ==
            [j \in 1..Len(portfolio_vol) |->
                NumMul(NumMul(NumMul(total_value, portfolio_vol[j]),
                              NumSqrt(slf.var_time_horizon)), es_factor)]
    IN [es_factor |-> es_factor,
        outcome |-> Return([var_absolute |-> var_value.var_absolute,
                            expected_shortfall |-> expected_shortfall,
                            es_percentage |->
                                [j \in 1..Len(expected_shortfall) |->
                                    NumDiv(expected_shortfall[j], total_value)],
                            confidence_level |-> confidence_level])]


\* ------------------------------------------------------------------------
\* The stress scenario catalog (table stress_test_scenarios)
\* ------------------------------------------------------------------------
\* None or the empty string, as passed for an omitted scenario_id
NoId == ""

Scenario(id, rank, equity, rate, credit, currency, vol, active) ==
    [scenario_id |-> id, rank |-> rank, equity_shock |-> equity,
     interest_rate_shock |-> rate, credit_spread_shock |-> credit,
     currency_shock |-> currency, volatility_shock |-> vol, is_active |-> active]

\* rank is the place of scenario_id in the order of the identifiers
ScenarioUniverse ==
    { Scenario("SCENARIO_000", 0, Fin(0), Fin(0), Fin(0), Fin(0), Fin(0), TRUE),
      Scenario("SCENARIO_001", 1, Fin(-4000), Fin(200), Fin(500), Fin(-1500), Fin(3000), TRUE),
      Scenario("SCENARIO_002", 2, Fin(-4000), Fin(-100), Fin(300), Fin(-1000), Fin(2500), TRUE),
      Scenario("SCENARIO_003", 3, Fin(-1500), Fin(500), Fin(200), Fin(500), Fin(2000), FALSE) }

ScenarioById(id) == CHOOSE sc \in ScenarioUniverse : sc.scenario_id = id

\* the catalogs the data source may hold
Catalogs ==
    { {},
      ScenarioUniverse,
      {ScenarioById("SCENARIO_002"), ScenarioById("SCENARIO_003")} }

RECURSIVE OrderedByRank(_)
OrderedByRank(S) ==
    IF S = {} THEN << >>
    ELSE LET first == CHOOSE x \in S : \A y \in S : x.rank <= y.rank
         IN <<first>> \o OrderedByRank(S \ {first})

\* RiskQueries.get_stress_test_scenarios: WHERE is_active = true ORDER BY scenario_id
GetStressTestScenarios(table) == OrderedByRank({sc \in table : sc.is_active})

SelectScenarioFallback(scenarios_df, scenario_id) ==
    LET matching == SelectSeq(scenarios_df, LAMBDA sc : sc.scenario_id = scenario_id)
    IN IF scenario_id # NoId /\ Len(matching) > 0 THEN Ok(matching[1])
       ELSE Ok(scenarios_df[1])

\* lines 243-248 of perform_stress_test: the row with the given identifier
\* (.iloc[0] of the matching rows, IndexError when there is none) or the
\* first row of the catalog
SelectScenario(scenarios_df, scenario_id) ==
    IF scenario_id # NoId
    THEN LET matching == SelectSeq(scenarios_df, LAMBDA sc : sc.scenario_id = scenario_id)
         IN IF Len(matching) = 0 THEN Err("IndexError") ELSE Ok(matching[1])
    ELSE Ok(scenarios_df[1])

ValueShockCurrency(scenario) == scenario.currency_shock

\* the shock of a scenario that the revaluation applies
ValueShock(scenario) == scenario.equity_shock

StressedValueOfMagnitude(market_value, equity_shock) ==
    NumMul(IF IsFin(market_value) THEN Fin(Abs(market_value.v)) ELSE market_value,
           NumAdd(Fin(Scale), equity_shock))

\* line 275: the value of a position under the shock
StressedValue(market_value, equity_shock) ==
    NumMul(market_value, NumAdd(Fin(Scale), equity_shock))

PortfolioLossOfStressed(initial_value, stressed_value) ==
    NumSub(stressed_value, initial_value)

\* line 280: the loss is what the portfolio was worth less what it is worth
\* under stress
PortfolioLoss(initial_value, stressed_value) ==
    NumSub(initial_value, stressed_value)

\* _apply_stress_scenario
ApplyStressScenario(portfolio_data, scenario) ==
    LET initial_value == NumSum(MarketValues(portfolio_data))
        stressed_values ==
            [i \in 1..Len(portfolio_data) |->
                StressedValue(portfolio_data[i].market_value, ValueShock(scenario))]
        stressed_portfolio_value == NumSum(stressed_values)
        portfolio_loss == PortfolioLoss(initial_value, stressed_portfolio_value)
        portfolio_loss_pct == NumDiv(portfolio_loss, initial_value)
    IN [initial_portfolio_value |-> initial_value,
        stressed_portfolio_value |-> stressed_portfolio_value,
        portfolio_loss |-> portfolio_loss,
        portfolio_loss_percentage |-> portfolio_loss_pct,
        scenario_impact |->
            [equity_shock |-> scenario.equity_shock,
             interest_rate_shock |-> scenario.interest_rate_shock,
             credit_spread_shock |-> scenario.credit_spread_shock,
             currency_shock |-> scenario.currency_shock,
             volatility_shock |-> scenario.volatility_shock]]

\* lines 243-260 of perform_stress_test
StressOutcome(portfolio_data, scenarios_df, scenario_id) ==
    LET scenario == SelectScenario(scenarios_df, scenario_id)
    IN IF ~scenario.ok THEN Raise(scenario.error)
       ELSE Return([scenario_id |-> scenario.v.scenario_id,
                    stress_results |-> ApplyStressScenario(portfolio_data, scenario.v)])

\* ------------------------------------------------------------------------
\* calculate_beta_exposure
\* ------------------------------------------------------------------------
DefaultBeta == Fin(Scale)

Betas(data) == [i \in 1..Len(data) |-> data[i].beta_to_sp500]

\* Series.fillna on a column
SeriesFillna(a, d) == [i \in 1..Len(a) |-> NumFillna(a[i], d)]

\* np.average(a, weights=w): ZeroDivisionError when the weights sum to 0.0
\* (as they do for no rows), else sum(a * w) / sum(w)
NpAverage(a, w) ==
    LET scl == NumSum(w)
    IN IF IsFin(scl) /\ scl.v = 0 THEN Err("ZeroDivisionError")
       ELSE Ok(NumDiv(Dot(a, w), scl))

\* line 303: 'beta_to_sp500' not in portfolio_data.columns
BetaColumnPresent(has_beta_column) == has_beta_column

\* lines 307-310
BetaAggregate(portfolio_data) ==
    LET total_value == NumSum(MarketValues(portfolio_data))
        weights == [i \in 1..Len(portfolio_data) |->
                       NumDiv(portfolio_data[i].market_value, total_value)]
        portfolio_beta == NpAverage(SeriesFillna(Betas(portfolio_data), DefaultBeta), weights)
    IN [total_value |-> total_value, weights |-> weights, portfolio_beta |-> portfolio_beta]

\* lines 313-322: the beta contribution of every position, or the first error
RECURSIVE BetaContributionLoop(_, _, _, _)
BetaContributionLoop(portfolio_data, i, total_value, acc) ==
    IF i > Len(portfolio_data) THEN Ok(acc)
    ELSE LET position == portfolio_data[i]
             beta == ScalarFillna(position.beta_to_sp500, DefaultBeta)
         IN IF ~beta.ok THEN beta
            ELSE BetaContributionLoop(portfolio_data, i + 1, total_value,
                   Append(acc,
                     [symbol |-> position.symbol,
                      market_value |-> position.market_value,
                      weight |-> NumDiv(position.market_value, total_value),
                      beta |-> beta.v,
                      beta_contribution |->
                          NumMul(NumDiv(position.market_value, total_value), beta.v)]))

\* lines 327-328: a comparison with NaN is false
HighBeta(data) ==
    SelectSeq(data, LAMBDA r : IsFin(r.beta_to_sp500) /\ r.beta_to_sp500.v * 2 > 3 * Scale)
LowBeta(data) ==
    SelectSeq(data, LAMBDA r : IsFin(r.beta_to_sp500) /\ r.beta_to_sp500.v * 2 < Scale)

\* lines 312-329
BetaOutcome(portfolio_data, total_value, portfolio_beta) ==
    LET contributions == BetaContributionLoop(portfolio_data, 1, total_value, << >>)
    IN IF ~contributions.ok THEN Raise(contributions.error)
       ELSE Return([portfolio_beta |-> portfolio_beta,
                    beta_contributions |-> contributions.v,
                    high_beta_positions |-> HighBeta(portfolio_data),
                    low_beta_positions |-> LowBeta(portfolio_data)])

\* ------------------------------------------------------------------------
\* State
\* ------------------------------------------------------------------------
VARIABLES
    positions,   \* rows of the portfolio in the data source
    scenarios,   \* rows of the stress scenario catalog in the data source
    self,        \* the RiskAnalytics object: defaults taken from the configuration
    rng,         \* state of the module-level random generator
    op,          \* entry point being executed: "none", "var", "es", "stress" or "beta"
    args,        \* arguments of the call to calculate_portfolio_var
    pc,          \* position in the call
    frame,       \* local variables of the call
    var_result,  \* outcome of calculate_portfolio_var
    outcome      \* outcome of the entry point, as the caller sees it

vars == <<positions, scenarios, self, rng, op, args, pc, frame, var_result, outcome>>

NoArgs == [method |-> "", confidence_level |-> NoneArg, time_horizon |-> NoneArg,
           scenario_id |-> NoId, has_beta_column |-> TRUE]

NoFrame ==
    [portfolio_data |-> << >>, confidence_level |-> NoneArg, time_horizon |-> NoneArg,
     total_value |-> NoneArg, weights |-> << >>, portfolio_vol |-> << >>,
     z_score |-> NoneArg, var_absolute |-> << >>, var_percentage |-> << >>,
     es_factor |-> NoneArg, scenarios_df |-> << >>, portfolio_beta |-> NoneArg]

\* argument values the callers are modelled to pass
ConfidenceArgs == {NoneArg, Percent(30), Percent(95)}
HorizonArgs == {NoneArg, Fin(4 * Scale)}

Init ==
    /\ positions \in Portfolios
    /\ scenarios \in Catalogs
    /\ self = [var_confidence_level |-> COMPLIANCE_LIMITS.var_confidence_level,
               var_time_horizon |-> COMPLIANCE_LIMITS.var_time_horizon]
    /\ rng \in 0..(Len(NormalStream) - 1)
    /\ op = "none"
    /\ args = NoArgs
    /\ pc = "idle"
    /\ frame = NoFrame
    /\ var_result = NoOutcome
    /\ outcome = NoOutcome

\* ------------------------------------------------------------------------
\* The data source changes while no call is in progress (a call starts from
\* a fresh frame, so a result still held does not matter to the next call)
\* and between the two reads of calculate_expected_shortfall
\* ------------------------------------------------------------------------
BetweenReads == pc = "var_done" /\ op = "es"

OpenPosition(r) ==
    /\ pc = "idle" \/ BetweenReads
    /\ r \notin positions
    /\ Cardinality(positions) < MaxPositions
    /\ positions' = positions \cup {r}
    /\ UNCHANGED <<scenarios, self, rng, op, args, pc, frame, var_result, outcome>>

ClosePosition(r) ==
    /\ pc = "idle" \/ BetweenReads
    /\ r \in positions
    /\ positions' = positions \ {r}
    /\ UNCHANGED <<scenarios, self, rng, op, args, pc, frame, var_result, outcome>>

\* ------------------------------------------------------------------------
\* calculate_portfolio_var
\* ------------------------------------------------------------------------
\* a caller invokes calculate_portfolio_var(portfolio_id, method, confidence_level, time_horizon)
CallVar(method, confidence_level, time_horizon) ==
    /\ pc \in {"idle", "done"}
    /\ op' = "var"
    /\ args' = [method |-> method, confidence_level |-> confidence_level,
                time_horizon |-> time_horizon, scenario_id |-> NoId, has_beta_column |-> TRUE]
    /\ frame' = NoFrame
    /\ var_result' = NoOutcome
    /\ outcome' = NoOutcome
    /\ pc' = "var_start"
    /\ UNCHANGED <<positions, scenarios, self, rng>>

VarQueryStoringDefaults ==
    /\ pc = "var_start"
    /\ \E data \in GetVarCalculation(positions) :
          frame' = [NoFrame EXCEPT
                      !.confidence_level = PyOr(args.confidence_level, self.var_confidence_level),
                      !.time_horizon = PyOr(args.time_horizon, self.var_time_horizon),
                      !.portfolio_data = data]
    /\ self' = [var_confidence_level |-> frame'.confidence_level,
                var_time_horizon |-> frame'.time_horizon]
    /\ pc' = "var_fetched"
    /\ UNCHANGED <<positions, scenarios, rng, op, args, var_result, outcome>>

\* lines 48-53: resolve the defaults and read the positions
VarQuery ==
    /\ pc = "var_start"
    /\ \E data \in GetVarCalculation(positions) :
          frame' = [NoFrame EXCEPT
                      !.confidence_level = PyOr(args.confidence_level, self.var_confidence_level),
                      !.time_horizon = PyOr(args.time_horizon, self.var_time_horizon),
                      !.portfolio_data = data]
    /\ pc' = "var_fetched"
    /\ UNCHANGED <<positions, scenarios, self, rng, op, args, var_result, outcome>>

\* lines 55-57: no rows, return {}
VarNoData ==
    /\ pc = "var_fetched"
    /\ DataEmpty(frame.portfolio_data)
    /\ var_result' = Return(EmptyDict)
    /\ pc' = "var_done"
    /\ UNCHANGED <<positions, scenarios, self, rng, op, args, frame, outcome>>

\* lines 60-61 and 89-102: the parametric method up to the component loop
VarParametric ==
    /\ pc = "var_fetched"
    /\ ~DataEmpty(frame.portfolio_data)
    /\ Dispatch(args.method) = "parametric"
    /\ LET agg == ParametricAggregate(frame.portfolio_data, frame.confidence_level,
                                      frame.time_horizon)
       IN frame' = [frame EXCEPT !.total_value = agg.total_value,
                                 !.weights = agg.weights,
                                 !.portfolio_vol = agg.portfolio_vol,
                                 !.z_score = agg.z_score,
                                 !.var_absolute = agg.var_absolute,
                                 !.var_percentage = agg.var_percentage]
    /\ pc' = "var_components"
    /\ UNCHANGED <<positions, scenarios, self, rng, op, args, var_result, outcome>>

\* lines 104-124 and 69-84: the component loop and the return or the error
VarComponents ==
    /\ pc = "var_components"
    /\ var_result' = WithContext(
                        CalculateParametricVar(frame.portfolio_data, frame.confidence_level,
                                               frame.time_horizon),
                        args.method, frame.confidence_level, frame.time_horizon,
                        frame.portfolio_data)
    /\ pc' = "var_done"
    /\ UNCHANGED <<positions, scenarios, self, rng, op, args, frame, outcome>>

\* lines 62-63 and 126-154
VarHistorical ==
    /\ pc = "var_fetched"
    /\ ~DataEmpty(frame.portfolio_data)
    /\ Dispatch(args.method) = "historical"
    /\ LET r == CalculateHistoricalVar(frame.portfolio_data, frame.confidence_level,
                                       frame.time_horizon, rng)
       IN /\ var_result' = WithContext(r.outcome, args.method, frame.confidence_level,
                                       frame.time_horizon, frame.portfolio_data)
          /\ rng' = r.rng
    /\ pc' = "var_done"
    /\ UNCHANGED <<positions, scenarios, self, op, args, frame, outcome>>

\* lines 64-65 and 156-187
VarMonteCarlo ==
    /\ pc = "var_fetched"
    /\ ~DataEmpty(frame.portfolio_data)
    /\ Dispatch(args.method) = "monte_carlo"
    /\ LET r == CalculateMonteCarloVar(frame.portfolio_data, frame.confidence_level,
                                       frame.time_horizon, rng)
       IN /\ var_result' = WithContext(r.outcome, args.method, frame.confidence_level,
                                       frame.time_horizon, frame.portfolio_data)
          /\ rng' = r.rng
    /\ pc' = "var_done"
    /\ UNCHANGED <<positions, scenarios, self, op, args, frame, outcome>>

\* lines 66-67: any other method string
VarUnsupported ==
    /\ pc = "var_fetched"
    /\ ~DataEmpty(frame.portfolio_data)
    /\ Dispatch(args.method) = "unsupported"
    /\ var_result' = Raise("ValueError: Unsupported VaR method")
    /\ pc' = "var_done"
    /\ UNCHANGED <<positions, scenarios, self, rng, op, args, frame, outcome>>

\* lines 80-84: the caller of calculate_portfolio_var receives the record or the error
VarReturn ==
    /\ pc = "var_done"
    /\ op = "var"
    /\ outcome' = var_result
    /\ pc' = "done"
    /\ UNCHANGED <<positions, scenarios, self, rng, op, args, frame, var_result>>

\* ------------------------------------------------------------------------
\* calculate_expected_shortfall
\* ------------------------------------------------------------------------
\* lines 193-194: the parametric VaR with the caller's confidence level and
\* the default time horizon
CallExpectedShortfall(confidence_level) ==
    /\ pc \in {"idle", "done"}
    /\ op' = "es"
    /\ args' = [method |-> "parametric", confidence_level |-> confidence_level,
                time_horizon |-> NoneArg, scenario_id |-> NoId, has_beta_column |-> TRUE]
    /\ frame' = NoFrame
    /\ var_result' = NoOutcome
    /\ outcome' = NoOutcome
    /\ pc' = "var_start"
    /\ UNCHANGED <<positions, scenarios, self, rng>>

\* lines 196-223: an error propagates, an empty VaR record gives {}, otherwise
\* the positions are read a second time and the shortfall is computed
ExpectedShortfallFinish ==
    /\ pc = "var_done"
    /\ op = "es"
    /\ IF var_result.kind = "raise"
       THEN /\ outcome' = var_result
            /\ frame' = frame
       ELSE IF IsEmptyDict(var_result.value)
       THEN /\ outcome' = Return(EmptyDict)
            /\ frame' = frame
       ELSE \E data \in GetVarCalculation(positions) :
               LET es == ExpectedShortfallTail(var_result.value, args.confidence_level,
                                               self, data)
               IN /\ outcome' = es.outcome
                  /\ frame' = [frame EXCEPT !.es_factor = es.es_factor]
    /\ pc' = "done"
    /\ UNCHANGED <<positions, scenarios, self, rng, op, args, var_result>>


\* ------------------------------------------------------------------------
\* perform_stress_test
\* ------------------------------------------------------------------------
ScenarioIdArgs == {NoId} \cup {sc.scenario_id : sc \in ScenarioUniverse}

CallStressTest(scenario_id) ==
    /\ pc \in {"idle", "done"}
    /\ op' = "stress"
    /\ args' = [NoArgs EXCEPT !.scenario_id = scenario_id]
    /\ frame' = NoFrame
    /\ var_result' = NoOutcome
    /\ outcome' = NoOutcome
    /\ pc' = "stress_start"
    /\ UNCHANGED <<positions, scenarios, self, rng>>

\* lines 228-234: read the catalog; no scenario, return {}
StressScenarios ==
    /\ pc = "stress_start"
    /\ frame' = [frame EXCEPT !.scenarios_df = GetStressTestScenarios(scenarios)]
    /\ IF Len(frame'.scenarios_df) = 0
       THEN outcome' = Return(EmptyDict) /\ pc' = "done"
       ELSE outcome' = outcome /\ pc' = "stress_positions"
    /\ UNCHANGED <<positions, scenarios, self, rng, op, args, var_result>>

\* lines 236-241: read the positions; no rows, return {}
StressPositions ==
    /\ pc = "stress_positions"
    /\ \E data \in GetVarCalculation(positions) :
          frame' = [frame EXCEPT !.portfolio_data = data]
    /\ IF DataEmpty(frame'.portfolio_data)
       THEN outcome' = Return(EmptyDict) /\ pc' = "done"
       ELSE outcome' = outcome /\ pc' = "stress_apply"
    /\ UNCHANGED <<positions, scenarios, self, rng, op, args, var_result>>

\* lines 243-264: select the scenario, apply it, return the record or raise
StressApply ==
    /\ pc = "stress_apply"
    /\ outcome' = StressOutcome(frame.portfolio_data, frame.scenarios_df, args.scenario_id)
    /\ pc' = "done"
    /\ UNCHANGED <<positions, scenarios, self, rng, op, args, frame, var_result>>

\* ------------------------------------------------------------------------
\* calculate_beta_exposure(portfolio_data)
\* ------------------------------------------------------------------------
\* a caller hands over the rows of the portfolio, with or without the beta
\* column
CallBetaExposure(portfolio_data, has_beta_column) ==
    /\ pc \in {"idle", "done"}
    /\ op' = "beta"
    /\ args' = [NoArgs EXCEPT !.has_beta_column = has_beta_column]
    /\ frame' = [NoFrame EXCEPT !.portfolio_data = portfolio_data]
    /\ var_result' = NoOutcome
    /\ outcome' = NoOutcome
    /\ pc' = "beta_start"
    /\ UNCHANGED <<positions, scenarios, self, rng>>

\* lines 303-304: without the column the error record is returned
BetaNoColumn ==
    /\ pc = "beta_start"
    /\ ~BetaColumnPresent(args.has_beta_column)
    /\ outcome' = Return([error |-> "Beta data not available"])
    /\ pc' = "done"
    /\ UNCHANGED <<positions, scenarios, self, rng, op, args, frame, var_result>>

\* lines 306-310: total value, weights and the weighted average beta
BetaWeightedAverage ==
    /\ pc = "beta_start"
    /\ BetaColumnPresent(args.has_beta_column)
    /\ LET agg == BetaAggregate(frame.portfolio_data)
       IN IF ~agg.portfolio_beta.ok
          THEN /\ outcome' = Raise(agg.portfolio_beta.error)
               /\ pc' = "done"
               /\ frame' = frame
          ELSE /\ frame' = [frame EXCEPT !.total_value = agg.total_value,
                                         !.weights = agg.weights,
                                         !.portfolio_beta = agg.portfolio_beta.v]
               /\ outcome' = outcome
               /\ pc' = "beta_contributions"
    /\ UNCHANGED <<positions, scenarios, self, rng, op, args, var_result>>

\* lines 312-329: the contribution loop and the return or the error
BetaContributions ==
    /\ pc = "beta_contributions"
    /\ outcome' = BetaOutcome(frame.portfolio_data, frame.total_value, frame.portfolio_beta)
    /\ pc' = "done"
    /\ UNCHANGED <<positions, scenarios, self, rng, op, args, frame, var_result>>

Next ==
    \/ \E r \in Universe : OpenPosition(r)
    \/ \E r \in Universe : ClosePosition(r)
    \/ \E m \in Methods, c \in ConfidenceArgs, h \in HorizonArgs : CallVar(m, c, h)
    \/ VarQuery
    \/ VarNoData
    \/ VarParametric
    \/ VarComponents
    \/ VarHistorical
    \/ VarMonteCarlo
    \/ VarUnsupported
    \/ VarReturn
    \/ \E c \in ConfidenceArgs : CallExpectedShortfall(c)
    \/ ExpectedShortfallFinish
    \/ \E id \in ScenarioIdArgs : CallStressTest(id)
    \/ StressScenarios
    \/ StressPositions
    \/ StressApply
    \/ \E data \in OrderedByValueDesc(positions), has_beta_column \in BOOLEAN :
          CallBetaExposure(data, has_beta_column)
    \/ BetaNoColumn
    \/ BetaWeightedAverage
    \/ BetaContributions

Spec == Init /\ [][Next]_vars

\* ------------------------------------------------------------------------
\* The closed form of calculate_expected_shortfall (lines 199-219) applied
\* to what the parametric method computes before its component loop
\* ------------------------------------------------------------------------
InitES ==
    /\ positions \in Portfolios
    /\ scenarios = {}
    /\ self = [var_confidence_level |-> COMPLIANCE_LIMITS.var_confidence_level,
               var_time_horizon |-> COMPLIANCE_LIMITS.var_time_horizon]
    /\ rng = 0
    /\ op = "es_tail"
    /\ \E c \in ConfidenceLevels \cup {NoneArg} :
          args = [method |-> "parametric", confidence_level |-> c, time_horizon |-> NoneArg,
                  scenario_id |-> NoId, has_beta_column |-> TRUE]
    /\ pc = "es_tail"
    /\ \E data \in GetVarCalculation(positions) :
          /\ ~DataEmpty(data)
          /\ frame = [NoFrame EXCEPT
                        !.confidence_level = PyOr(args.confidence_level, self.var_confidence_level),
                        !.time_horizon = self.var_time_horizon,
                        !.portfolio_data = data]
          /\ LET agg == ParametricAggregate(data, frame.confidence_level, frame.time_horizon)
             IN var_result = Return([var_absolute |-> agg.var_absolute,
                                     portfolio_volatility |-> agg.portfolio_vol])
    /\ outcome = NoOutcome

ExpectedShortfallApply ==
    /\ pc = "es_tail"
    /\ \E data \in GetVarCalculation(positions) :
          LET es == ExpectedShortfallTail(var_result.value, args.confidence_level, self, data)
          IN /\ outcome' = es.outcome
             /\ frame' = [frame EXCEPT !.es_factor = es.es_factor]
    /\ pc' = "done"
    /\ UNCHANGED <<positions, scenarios, self, rng, op, args, var_result>>

NextES == ExpectedShortfallApply

SpecES == InitES /\ [][NextES]_vars

\* ------------------------------------------------------------------------
\* Properties
\* ------------------------------------------------------------------------
Tolerance == Scale \div 1000
Near(a, b) == IsFin(a) /\ IsFin(b) /\ Abs(a.v - b.v) <= Tolerance

VarCallDone == pc = "done" /\ op = "var"
HasRows == Len(frame.portfolio_data) > 0
TotalOf(data) == NumSum(MarketValues(data))

C2_ZeroTotalFailsInvalidPortfolio ==
    (op \in {"var", "es"} /\ HasRows /\ args.method \in Supported
        /\ TotalOf(frame.portfolio_data) = Fin(0)) =>
        /\ pc # "var_components"
        /\ pc = "done" => (outcome.kind = "raise" /\ outcome.error = "InvalidPortfolioError")

NonZeroTotal == LET t == TotalOf(frame.portfolio_data) IN IsFin(t) /\ t.v # 0

\* the volatility the claims give a position: its own, or the default
SigmaOf(position) == NumFillna(position.volatility_30d, DefaultVolatility)

\* sum over the positions of weight squared times volatility squared
SumWeightedVariance(data) ==
    LET total == TotalOf(data)
    IN NumSum([i \in 1..Len(data) |->
                 LET w == NumDiv(data[i].market_value, total)
                     sg == SigmaOf(data[i])
                 IN NumMul(NumMul(w, w), NumMul(sg, sg))])

\* C4 as stated: in the parametric method on a portfolio of non-zero total
\* value, the portfolio volatility is one number whose square is the sum of
\* weight squared times volatility squared over the positions, and the
\* absolute VaR is the one number total_value x portfolio_volatility x
\* sqrt(time_horizon) x normal_quantile(confidence_level).
C4_ParametricVolatilityAndVar ==
    (pc = "var_components" /\ NonZeroTotal) =>
        /\ Len(frame.portfolio_vol) = 1
        /\ Near(NumMul(frame.portfolio_vol[1], frame.portfolio_vol[1]),
                SumWeightedVariance(frame.portfolio_data))
        /\ Len(frame.var_absolute) = 1
        /\ Near(frame.var_absolute[1],
                NumMul(NumMul(NumMul(frame.total_value, frame.portfolio_vol[1]),
                              NumSqrt(frame.time_horizon)),
                       NormPpf(frame.confidence_level)))

\* C5 as stated: the parametric method reports for each position the
\* component VaR market_value x volatility x sqrt(time_horizon) x z and the
\* contribution component VaR / total VaR, finite whenever total VaR is not
\* zero and 0 when it is, and raises no error.
C5_ComponentVar ==
    (VarCallDone /\ HasRows /\ args.method = "parametric") =>
        /\ outcome.kind = "return"
        /\ Len(outcome.value.component_var) = Len(frame.portfolio_data)
        /\ \A i \in 1..Len(frame.portfolio_data) :
              LET c == outcome.value.component_var[i]
                  position == frame.portfolio_data[i]
                  total_var == outcome.value.var_absolute[1]
              IN /\ Near(c.component_var,
                         NumMul(NumMul(NumMul(position.market_value, SigmaOf(position)),
                                       NumSqrt(frame.time_horizon)),
                                NormPpf(frame.confidence_level)))
                 /\ IF NumNonZero(total_var)
                    THEN Near(c.var_contribution[1], NumDiv(c.component_var, total_var))
                    ELSE c.var_contribution[1] = Fin(0)

\* C6 as stated: compute_var returns, for each of the three methods, a
\* record whose percentage loss is its absolute loss divided by the total
\* portfolio value it reports.
C6_PercentageConsistent ==
    (VarCallDone /\ HasRows /\ args.method \in Supported) =>
        /\ outcome.kind = "return"
        /\ \A j \in 1..Len(outcome.value.var_absolute) :
              Near(outcome.value.var_percentage[j],
                   NumDiv(outcome.value.var_absolute[j],
                          outcome.value.total_portfolio_value))

\* C7 as stated: for every method and every valid input, compute_var
\* returns an absolute loss and a percentage loss that are not negative.
C7_LossNonNegative ==
    (VarCallDone /\ HasRows /\ NonZeroTotal /\ args.method \in Supported) =>
        /\ outcome.kind = "return"
        /\ \A j \in 1..Len(outcome.value.var_absolute) :
              /\ IsFin(outcome.value.var_absolute[j])
              /\ outcome.value.var_absolute[j].v >= 0
              /\ IsFin(outcome.value.var_percentage[j])
              /\ outcome.value.var_percentage[j].v >= 0

EsCallDone == pc = "done" /\ op = "es"

\* C8 as stated: for every portfolio of non-zero total value and every
\* confidence level, the Expected Shortfall record reports an expected
\* shortfall that is at least the parametric VaR in the same record.
C8_ShortfallAtLeastVar ==
    (EsCallDone /\ HasRows /\ NonZeroTotal) =>
        /\ outcome.kind = "return"
        /\ \A j \in 1..Len(outcome.value.expected_shortfall) :
              /\ IsFin(outcome.value.expected_shortfall[j])
              /\ IsFin(outcome.value.var_absolute[j])
              /\ outcome.value.expected_shortfall[j].v >= outcome.value.var_absolute[j].v

C10_ShortfallClosedForm ==
    (EsCallDone /\ HasRows /\ NonZeroTotal) =>
        /\ outcome.kind = "return"
        /\ Len(outcome.value.expected_shortfall) = 1
        /\ LET z == NormPpf(frame.confidence_level)
               factor == NumDiv(NormPdf(z), NumSub(Fin(Scale), frame.confidence_level))
           IN Near(outcome.value.expected_shortfall[1],
                   NumMul(NumMul(NumMul(frame.total_value, frame.portfolio_vol[1]),
                                 NumSqrt(frame.time_horizon)), factor))
        /\ Near(outcome.value.es_percentage[1],
                NumDiv(outcome.value.expected_shortfall[1], frame.total_value))

AllPositive(data) == \A i \in 1..Len(data) : data[i].market_value.v > 0

\* every entry of a is at least the entry of b at the same place
AllAtLeast(a, b) ==
    /\ Len(a) = Len(b)
    /\ \A j \in 1..Len(a) : IsFin(a[j]) /\ IsFin(b[j]) /\ a[j].v >= b[j].v

\* C11 as stated: for a portfolio of positive market values and a fixed
\* time horizon, the parametric VaR at confidence 0.99 is at least the
\* parametric VaR at confidence 0.95.
C11_VarMonotoneInConfidence ==
    (VarCallDone /\ HasRows /\ AllPositive(frame.portfolio_data)
        /\ args.method = "parametric" /\ frame.confidence_level = Percent(95)) =>
        LET at99 == CalculateParametricVar(frame.portfolio_data, Percent(99),
                                           frame.time_horizon)
        IN /\ outcome.kind = "return"
           /\ at99.kind = "return"
           /\ AllAtLeast(at99.value.var_absolute, outcome.value.var_absolute)

\* C12 as stated: for a portfolio of positive market values and a fixed
\* confidence level, the parametric VaR over a shorter time horizon is at
\* most the parametric VaR over a longer one.
C12_VarMonotoneInHorizon ==
    (VarCallDone /\ HasRows /\ AllPositive(frame.portfolio_data)
        /\ args.method = "parametric") =>
        /\ outcome.kind = "return"
        /\ \A h \in {Fin(1 * Scale), Fin(4 * Scale), Fin(9 * Scale)} :
              h.v > frame.time_horizon.v =>
                 LET longer == CalculateParametricVar(frame.portfolio_data,
                                                      frame.confidence_level, h)
                 IN /\ longer.kind = "return"
                    /\ AllAtLeast(longer.value.var_absolute, outcome.value.var_absolute)

\* ------------------------------------------------------------------------
\* Stress testing
\* ------------------------------------------------------------------------
StressCallDone == op = "stress" /\ pc = "done"

\* a stress call that handed back a stress record
StressReturned ==
    /\ StressCallDone
    /\ outcome.kind = "return"
    /\ ~IsEmptyDict(outcome.value)

RECURSIVE SumShocked(_, _)
SumShocked(data, factor) ==
    IF Len(data) = 0 THEN Fin(0)
    ELSE NumAdd(NumMul(data[1].market_value, factor), SumShocked(Tail(data), factor))

\* C13: a stress record reports initial value = sum of the market values,
\* stressed value = sum of market value x (1 + equity_shock), loss = initial
\* - stressed and loss percentage = loss / initial; with all shocks zero the
\* stressed value is the initial value and the loss is zero; equity_shock
\* -0.40 on one position of 100,000 gives 60,000, 40,000 and 0.40.
C13_StressArithmetic ==
    StressReturned =>
        LET data == frame.portfolio_data
            sc == ScenarioById(outcome.value.scenario_id)
            res == outcome.value.stress_results
            initial == TotalOf(data)
        IN /\ res.initial_portfolio_value = initial
           /\ res.stressed_portfolio_value =
                 SumShocked(data, NumAdd(Fin(Scale), sc.equity_shock))
           /\ res.portfolio_loss = NumSub(initial, res.stressed_portfolio_value)
           /\ res.portfolio_loss_percentage = NumDiv(res.portfolio_loss, initial)
           /\ (IsFin(initial) /\ initial.v # 0) =>
                 /\ IsFin(res.portfolio_loss_percentage)
                 /\ Near(NumMul(res.portfolio_loss_percentage, initial), res.portfolio_loss)
           /\ sc.equity_shock = Fin(0) =>
                 /\ res.stressed_portfolio_value = initial
                 /\ res.portfolio_loss = Fin(0)
           /\ (Len(data) = 1 /\ data[1].market_value = Fin(100000 * Scale)
                  /\ sc.equity_shock = Fin(-4000)) =>
                 /\ res.stressed_portfolio_value = Fin(60000 * Scale)
                 /\ res.portfolio_loss = Fin(40000 * Scale)
                 /\ res.portfolio_loss_percentage = Fin(4000)

\* the 100,000 position stressed by -0.40 has been reported
C13_Witness ==
    /\ StressReturned
    /\ Len(frame.portfolio_data) = 1
    /\ frame.portfolio_data[1].market_value = Fin(100000 * Scale)
    /\ outcome.value.scenario_id = "SCENARIO_001"
    /\ outcome.value.stress_results.portfolio_loss = Fin(40000 * Scale)

\* the scenario a returned stress record names
AppliedScenario == ScenarioById(outcome.value.scenario_id)

\* the four value figures of a stress record
ValueFigures(res) ==
    <<res.initial_portfolio_value, res.stressed_portfolio_value,
      res.portfolio_loss, res.portfolio_loss_percentage>>

\* the scenarios of the universe that differ from sc in a non-equity shock only
EquityTwins(sc) ==
    {other \in ScenarioUniverse :
        /\ other.equity_shock = sc.equity_shock
        /\ \/ other.interest_rate_shock # sc.interest_rate_shock
           \/ other.credit_spread_shock # sc.credit_spread_shock
           \/ other.currency_shock # sc.currency_shock
           \/ other.volatility_shock # sc.volatility_shock}

\* C14: a stress run reports the same initial value, stressed value, loss and
\* loss percentage as a run on the same positions under any scenario with the
\* same equity_shock and other non-equity shocks; the non-equity shocks of
\* the scenario are reported unchanged in scenario_impact.
C14_OnlyEquityShockAffectsValue ==
    StressReturned =>
        LET res == outcome.value.stress_results
        IN /\ \A other \in EquityTwins(AppliedScenario) :
                 ValueFigures(ApplyStressScenario(frame.portfolio_data, other)) = ValueFigures(res)
           /\ res.scenario_impact.equity_shock = AppliedScenario.equity_shock
           /\ res.scenario_impact.interest_rate_shock = AppliedScenario.interest_rate_shock
           /\ res.scenario_impact.credit_spread_shock = AppliedScenario.credit_spread_shock
           /\ res.scenario_impact.currency_shock = AppliedScenario.currency_shock
           /\ res.scenario_impact.volatility_shock = AppliedScenario.volatility_shock

\* a run under a scenario that has a twin with other non-equity shocks has
\* reported a loss
C14_Witness ==
    /\ StressReturned
    /\ EquityTwins(AppliedScenario) # {}
    /\ IsFin(outcome.value.stress_results.portfolio_loss)
    /\ outcome.value.stress_results.portfolio_loss.v > 0
    /\ outcome.value.stress_results.scenario_impact.currency_shock # Fin(0)

\* a stress call that got as far as revaluing the rows under a scenario
StressApplied ==
    /\ StressCallDone
    /\ HasRows
    /\ Len(frame.scenarios_df) > 0
    /\ SelectScenario(frame.scenarios_df, args.scenario_id).ok

\* C15 as stated: a stress run on positions whose market values sum to zero
\* fails with InvalidPortfolioError and returns no stress record.
C15_ZeroInitialFailsInvalidPortfolio ==
    (StressApplied /\ TotalOf(frame.portfolio_data) = Fin(0)) =>
        outcome = Raise("InvalidPortfolioError")

\* ------------------------------------------------------------------------
\* Beta exposure
\* ------------------------------------------------------------------------
BetaCallDone == op = "beta" /\ pc = "done"

ContributionValues(contribs) == [i \in 1..Len(contribs) |-> contribs[i].beta_contribution]

\* C16 as stated: for positions carrying the beta column the beta
\* decomposition returns, per position, (market_value / total_value) x beta
\* with a missing beta taken as 1.0, and a portfolio beta equal to the sum of
\* these contributions, which is exactly 1.0 when every beta is missing.
C16_BetaDecomposition ==
    (BetaCallDone /\ args.has_beta_column /\ HasRows /\ AllPositive(frame.portfolio_data)) =>
        LET data == frame.portfolio_data
            total == TotalOf(data)
        IN /\ outcome.kind = "return"
           /\ Len(outcome.value.beta_contributions) = Len(data)
           /\ \A i \in 1..Len(data) :
                 outcome.value.beta_contributions[i].beta_contribution =
                     NumMul(NumDiv(data[i].market_value, total),
                            NumFillna(data[i].beta_to_sp500, DefaultBeta))
           /\ Near(outcome.value.portfolio_beta,
                   NumSum(ContributionValues(outcome.value.beta_contributions)))
           /\ (\A i \in 1..Len(data) : IsNaN(data[i].beta_to_sp500)) =>
                 outcome.value.portfolio_beta = Fin(Scale)

\* C17 as stated: without the beta column the decomposition fails with
\* MissingFactorDataError and returns nothing; with the column present and
\* every value missing it raises no error.
C17_MissingBetaColumnFails ==
    BetaCallDone =>
        /\ ~args.has_beta_column => outcome = Raise("MissingFactorDataError")
        /\ (args.has_beta_column /\ HasRows /\ AllPositive(frame.portfolio_data)
               /\ \A i \in 1..Len(frame.portfolio_data) :
                     IsNaN(frame.portfolio_data[i].beta_to_sp500)) =>
              outcome.kind = "return"

\* ------------------------------------------------------------------------
\* Missing volatility
\* ------------------------------------------------------------------------
\* the held positions whose volatility is missing
MissingVolatility(table) == {r \in table : r.quantity # 0 /\ IsNaN(r.volatility_30d)}

\* the table with every missing volatility written out as 0.20
VolatilityFilled(table) ==
    {[r EXCEPT !.volatility_30d = NumFillna(@, DefaultVolatility)] : r \in table}

FilledRows(data) ==
    [i \in 1..Len(data) |->
        [data[i] EXCEPT !.volatility_30d = NumFillna(@, DefaultVolatility)]]

\* C18 as stated: a VaR call on a portfolio holding a position with missing
\* volatility raises nothing and returns a record computed over the rows of
\* the same portfolio with that volatility set to 0.20 (same total value),
\* the position taking part.
C18_MissingVolatilityTakesPart ==
    (VarCallDone /\ args.method \in Supported /\ MissingVolatility(positions) # {}) =>
        /\ outcome.kind = "return"
        /\ ~IsEmptyDict(outcome.value)
        /\ FilledRows(frame.portfolio_data) \in GetVarCalculation(VolatilityFilled(positions))
        /\ outcome.value.total_portfolio_value = TotalOf(FilledRows(frame.portfolio_data))

\* ------------------------------------------------------------------------
\* Simulation methods and the random source
\* ------------------------------------------------------------------------
\* the simulation method run once more on the same rows from generator
\* position g
Rerun(method, g) ==
    IF method = "historical"
    THEN CalculateHistoricalVar(frame.portfolio_data, frame.confidence_level,
                                frame.time_horizon, g).outcome
    ELSE CalculateMonteCarloVar(frame.portfolio_data, frame.confidence_level,
                                frame.time_horizon, g).outcome

\* C19 as stated: a historical or Monte Carlo VaR call returns absolute and
\* percentage VaR that a second run on the same inputs reproduces, the
\* figures being fixed by what the caller passes and not by the position of
\* the module-level generator.
C19_SimulationReproducible ==
    (VarCallDone /\ HasRows /\ args.method \in {"historical", "monte_carlo"}) =>
        /\ outcome.kind = "return"
        /\ \A g \in 0..(Len(NormalStream) - 1) :
              LET again == Rerun(args.method, g)
              IN /\ again.kind = "return"
                 /\ again.value.var_absolute = outcome.value.var_absolute
                 /\ again.value.var_percentage = outcome.value.var_percentage

\* ------------------------------------------------------------------------
\* Independence of the calls
\* ------------------------------------------------------------------------
\* the object as constructed
FreshSelf ==
    [var_confidence_level |-> COMPLIANCE_LIMITS.var_confidence_level,
     var_time_horizon |-> COMPLIANCE_LIMITS.var_time_horizon]

\* what calculate_portfolio_var hands a first caller for these arguments and
\* rows, the generator being at position 0, before any draw
FreshVarOutcome(a, data) ==
    LET cl == PyOr(a.confidence_level, FreshSelf.var_confidence_level)
        th == PyOr(a.time_horizon, FreshSelf.var_time_horizon)
    IN IF Len(data) = 0 THEN Return(EmptyDict)
       ELSE IF a.method = "parametric"
       THEN WithContext(CalculateParametricVar(data, cl, th), a.method, cl, th, data)
       ELSE IF a.method = "historical"
       THEN WithContext(CalculateHistoricalVar(data, cl, th, 0).outcome,
                        a.method, cl, th, data)
       ELSE IF a.method = "monte_carlo"
       THEN WithContext(CalculateMonteCarloVar(data, cl, th, 0).outcome,
                        a.method, cl, th, data)
       ELSE Raise("ValueError: Unsupported VaR method")

\* the result a finished call holds is the one a first call on a fresh
\* object gives for the same arguments and rows
ResultAsOfFirstCall ==
    /\ VarCallDone => outcome = FreshVarOutcome(args, frame.portfolio_data)
    /\ (EsCallDone /\ var_result.kind = "raise") =>
          outcome = FreshVarOutcome(args, frame.portfolio_data)
    /\ (StressCallDone /\ HasRows) =>
          outcome = StressOutcome(frame.portfolio_data,
                                  GetStressTestScenarios(scenarios), args.scenario_id)
    /\ (BetaCallDone /\ args.has_beta_column /\ HasRows) =>
          outcome = BetaOutcome(frame.portfolio_data, TotalOf(frame.portfolio_data),
                                BetaAggregate(frame.portfolio_data).portfolio_beta.v)

\* a step of a call (every step but the opening or closing of a position,
\* which leaves the place in the program alone) leaves the positions, the
\* scenario catalog and the object's defaults alone
CallStepKeepsData ==
    pc' # pc =>
        /\ positions' = positions
        /\ scenarios' = scenarios
        /\ self' = self

TrialOrders(n) == {p \in [1..n -> 1..n] : \A i, j \in 1..n : p[i] = p[j] => i = j}

SimulationCallDone == VarCallDone /\ HasRows /\ args.method \in {"historical", "monte_carlo"}

\* the VaR figures of the simulation method of the finished call when its
\* trials are joined in the given order
VarInTrialOrder(order) ==
    IF args.method = "historical"
    THEN LET sr == HistoricalDrawLoop(frame.portfolio_data, 1, rng, << >>)
         IN IF ~sr.ok THEN Raise(sr.error)
            ELSE Return(HistoricalVarOf(
                            [i \in 1..Len(sr.v) |->
                                [t \in 1..HistoricalTrials |-> sr.v[i][order[t]]]],
                            frame.portfolio_data, frame.confidence_level))
    ELSE LET pv == MonteCarloLoop(frame.portfolio_data, 1, frame.time_horizon, rng, << >>)
         IN IF ~pv.ok THEN Raise(pv.error)
            ELSE Return(MonteCarloVarOf([t \in 1..MonteCarloTrials |-> pv.v[order[t]]],
                                        frame.portfolio_data, frame.confidence_level))

\* C21 as stated: a historical or Monte Carlo call returns a VaR, and joining
\* the trials in any other order gives the same absolute and percentage VaR.
C21_TrialOrderIrrelevant ==
    SimulationCallDone =>
        /\ outcome.kind = "return"
        /\ \A order \in TrialOrders(IF args.method = "historical"
                                    THEN HistoricalTrials ELSE MonteCarloTrials) :
              LET other == VarInTrialOrder(order)
              IN /\ other.kind = "return"
                 /\ other.value.var_absolute = outcome.value.var_absolute
                 /\ other.value.var_percentage = outcome.value.var_percentage

\* ------------------------------------------------------------------------
\* Short exposure
\* ------------------------------------------------------------------------
NumAbs(a) == IF IsFin(a) THEN Fin(Abs(a.v)) ELSE a

HasShort(data) == \E i \in 1..Len(data) : data[i].market_value.v < 0

\* C22 as stated: in a parametric VaR at a confidence level of at least 0.5
\* on a portfolio with a short position, the component VaR of that position
\* is non-negative and is the one of the magnitude of its market value:
\* |market_value| x volatility x sqrt(time_horizon) x z.
C22_ShortTreatedAsMagnitude ==
    (VarCallDone /\ args.method = "parametric" /\ HasShort(frame.portfolio_data)
        /\ frame.confidence_level.v >= Scale \div 2) =>
        /\ outcome.kind = "return"
        /\ \A i \in 1..Len(frame.portfolio_data) :
              LET position == frame.portfolio_data[i]
                  component == outcome.value.component_var[i].component_var
              IN position.market_value.v < 0 =>
                    /\ IsFin(component) /\ component.v >= 0
                    /\ component =
                          NumMul(NumMul(NumMul(NumAbs(position.market_value),
                                               NumFillna(position.volatility_30d, DefaultVolatility)),
                                        NumSqrt(frame.time_horizon)),
                                 NormPpf(frame.confidence_level))

\* ------------------------------------------------------------------------
\* The simulation methods as described
\* ------------------------------------------------------------------------
GeneratorStates == 0..(Len(NormalStream) - 1)

VolOf(position) == NumFillna(position.volatility_30d, DefaultVolatility)

\* per position, one zero-mean normal sample per trial with the position's
\* volatility, times its market value, drawn from generator position g
SamplesTimesValue(data, g) ==
    [i \in 1..Len(data) |->
        [t \in 1..HistoricalTrials |->
            NumMul(NumMul(VolOf(data[i]), StdNormal(g, (i - 1) * HistoricalTrials + t)),
                   data[i].market_value)]]

\* C23 as stated: the historical method returns a record whose absolute VaR
\* is the (1 - confidence_level) percentile of the per-trial sums, over the
\* positions, of sample x market_value, one sample per position and trial
\* with the position's volatility, and whose simulation_count is the number
\* of trials.
C23_HistoricalAsDescribed ==
    (VarCallDone /\ HasRows /\ args.method = "historical") =>
        /\ outcome.kind = "return"
        /\ outcome.value.simulation_count = HistoricalTrials
        /\ \E g \in GeneratorStates :
              LET sums == PortfolioReturns(SamplesTimesValue(frame.portfolio_data, g))
              IN /\ Len(sums) = HistoricalTrials
                 /\ outcome.value.var_absolute =
                       <<Percentile(sums, TailRank(frame.confidence_level))>>

\* per trial, the sum over the positions of market_value x (1 + return), the
\* return drawn with standard deviation volatility x sqrt(time_horizon)
TrialValues(data, time_horizon, g) ==
    [t \in 1..MonteCarloTrials |->
        NumSum([i \in 1..Len(data) |->
            NumMul(data[i].market_value,
                   NumAdd(Fin(Scale),
                          NumMul(NumMul(VolOf(data[i]), NumSqrt(time_horizon)),
                                 StdNormal(g, (t - 1) * Len(data) + i))))])]

\* C24 as stated: the Monte Carlo method returns a record whose absolute VaR
\* is the initial value times the (1 - confidence_level) percentile of the
\* trial returns (value - initial) / initial, each trial value being the sum
\* of market_value x (1 + return) over the positions, and whose
\* simulation_count is the number of trials.
C24_MonteCarloAsDescribed ==
    (VarCallDone /\ HasRows /\ args.method = "monte_carlo") =>
        /\ outcome.kind = "return"
        /\ outcome.value.simulation_count = MonteCarloTrials
        /\ \E g \in GeneratorStates :
              LET initial == TotalOf(frame.portfolio_data)
                  returns == ReturnsOnInitial(
                                 TrialValues(frame.portfolio_data, frame.time_horizon, g),
                                 initial)
              IN outcome.value.var_absolute =
                    <<NumMul(Percentile(returns, TailRank(frame.confidence_level)), initial)>>

\* ------------------------------------------------------------------------
\* The two reads of calculate_expected_shortfall
\* ------------------------------------------------------------------------
\* C25 as stated: an expected shortfall call whose first read found rows
\* returns a record whose shortfall is computed on the total value of those
\* same rows, whatever happened to the positions before the second read:
\* expected_shortfall = total x portfolio volatility x sqrt(horizon) x
\* es_factor and es_percentage = expected_shortfall / total, total being the
\* sum over the rows the reported VaR was computed from.
C25_ShortfallFromOneSnapshot ==
    (EsCallDone /\ HasRows) =>
        /\ outcome.kind = "return"
        /\ ~IsEmptyDict(outcome.value)
        /\ LET total == TotalOf(frame.portfolio_data)
               vol == frame.portfolio_vol
           IN /\ Len(outcome.value.expected_shortfall) = Len(vol)
              /\ \A j \in 1..Len(vol) :
                    /\ outcome.value.expected_shortfall[j] =
                          NumMul(NumMul(NumMul(total, vol[j]), NumSqrt(self.var_time_horizon)),
                                 frame.es_factor)
                    /\ outcome.value.es_percentage[j] =
                          NumDiv(outcome.value.expected_shortfall[j], total)

\* ------------------------------------------------------------------------
\* Which scenario a stress test applies
\* ------------------------------------------------------------------------
\* the catalog a stress test reads: the active scenarios
ActiveScenarios == {sc \in scenarios : sc.is_active}

InCatalog(id) == \E sc \in ActiveScenarios : sc.scenario_id = id

FirstOfCatalog == CHOOSE sc \in ActiveScenarios : \A other \in ActiveScenarios : sc.rank <= other.rank

ShocksOf(sc) ==
    [equity_shock |-> sc.equity_shock,
     interest_rate_shock |-> sc.interest_rate_shock,
     credit_spread_shock |-> sc.credit_spread_shock,
     currency_shock |-> sc.currency_shock,
     volatility_shock |-> sc.volatility_shock]

\* the finished stress test reports scenario sc as the one applied
Reports(sc) ==
    /\ outcome.kind = "return"
    /\ ~IsEmptyDict(outcome.value)
    /\ outcome.value.scenario_id = sc.scenario_id
    /\ outcome.value.stress_results.scenario_impact = ShocksOf(sc)

C27_LossShareIsMinusShock ==
    (StressReturned /\ TotalOf(frame.portfolio_data) # Fin(0)) =>
        LET res == outcome.value.stress_results
            shock == AppliedScenario.equity_shock
        IN /\ res.portfolio_loss_percentage = NumSub(Fin(0), shock)
           /\ res.stressed_portfolio_value =
                 NumMul(TotalOf(frame.portfolio_data), NumAdd(Fin(Scale), shock))

\* a long and a short position of different sizes have been stressed by a
\* shock that is not zero
C27_Witness ==
    /\ StressReturned
    /\ Len(frame.portfolio_data) = 2
    /\ HasShort(frame.portfolio_data)
    /\ \E i \in 1..2 : frame.portfolio_data[i].market_value.v > 0
    /\ TotalOf(frame.portfolio_data) # Fin(0)
    /\ AppliedScenario.equity_shock = Fin(-4000)
    /\ outcome.value.stress_results.portfolio_loss_percentage = Fin(4000)

\* ------------------------------------------------------------------------
\* Component VaR against total VaR
\* ------------------------------------------------------------------------
NoneNegative(data) == \A i \in 1..Len(data) : data[i].market_value.v >= 0

ComponentValues(components) == [i \in 1..Len(components) |-> components[i].component_var]

\* the positions that carry risk: market_value x volatility is not zero
Risky(data) ==
    {i \in 1..Len(data) : NumNonZero(NumMul(data[i].market_value, VolOf(data[i])))}

\* C28 as stated: a parametric VaR at a confidence level of at least 0.5 on
\* positions with non-negative market values returns component VaRs whose
\* sum is at least the total VaR, and equal to it only when at most one
\* position has non-zero market_value x volatility.
C28_ComponentsSumAboveTotal ==
    (VarCallDone /\ HasRows /\ args.method = "parametric"
        /\ NoneNegative(frame.portfolio_data) /\ frame.confidence_level.v >= Scale \div 2) =>
        /\ outcome.kind = "return"
        /\ Len(outcome.value.var_absolute) = 1
        /\ LET total == outcome.value.var_absolute[1]
               sum == NumSum(ComponentValues(outcome.value.component_var))
           IN /\ IsFin(total) /\ IsFin(sum)
              /\ sum.v >= total.v
              /\ sum.v = total.v => Cardinality(Risky(frame.portfolio_data)) <= 1

\* ------------------------------------------------------------------------
\* The simulation methods across horizons and confidence levels
\* ------------------------------------------------------------------------
HorizonValues == {Fin(1 * Scale), Fin(4 * Scale), Fin(9 * Scale)}

\* C29 as stated: a historical VaR call returns a record that reports the
\* requested horizon and whose absolute and percentage VaR are the ones the
\* same draws give for every other horizon.
C29_HistoricalIgnoresHorizon ==
    (VarCallDone /\ HasRows /\ args.method = "historical") =>
        /\ outcome.kind = "return"
        /\ outcome.value.time_horizon = frame.time_horizon
        /\ \E g \in GeneratorStates :
              \A h \in HorizonValues :
                 LET other == CalculateHistoricalVar(frame.portfolio_data,
                                                     frame.confidence_level, h, g).outcome
                 IN /\ other.kind = "return"
                    /\ other.value.var_absolute = outcome.value.var_absolute
                    /\ other.value.var_percentage = outcome.value.var_percentage

\* the simulated outcomes of which the finished call takes the percentile,
\* drawn from generator position g
SimulatedOutcomes(g) ==
    IF args.method = "historical"
    THEN LET sr == HistoricalDrawLoop(frame.portfolio_data, 1, g, << >>)
         IN IF ~sr.ok THEN sr ELSE Ok(PortfolioReturns(sr.v))
    ELSE LET pv == MonteCarloLoop(frame.portfolio_data, 1, frame.time_horizon, g, << >>)
         IN IF ~pv.ok THEN pv
            ELSE Ok(ReturnsOnInitial(pv.v, TotalOf(frame.portfolio_data)))

\* C30 as stated: a historical or Monte Carlo call returns a record, and on
\* its simulated outcomes the (1 - confidence_level) percentile lies between
\* the smallest and the largest outcome and is not exceeded by the percentile
\* for any higher confidence level.
C30_PercentileMonotone ==
    SimulationCallDone =>
        /\ outcome.kind = "return"
        /\ \E g \in GeneratorStates :
              LET outcomes == SimulatedOutcomes(g)
                  value == Percentile(outcomes.v, TailRank(frame.confidence_level))
              IN /\ outcomes.ok
                 /\ IsFin(value)
                 /\ \A t \in 1..Len(outcomes.v) : IsFin(outcomes.v[t])
                 /\ \E t \in 1..Len(outcomes.v) : outcomes.v[t].v <= value.v
                 /\ \E t \in 1..Len(outcomes.v) : outcomes.v[t].v >= value.v
                 /\ \A c \in ConfidenceLevels :
                       c.v > frame.confidence_level.v =>
                          LET higher == Percentile(outcomes.v, TailRank(c))
                          IN IsFin(higher) /\ higher.v <= value.v

====
